---- MODULE Spec2Model ----
(***************************************************************************)
(* State-machine model of the ENT handover record store (src/App.py):      *)
(* the in-memory patient frame p_df of each session, the durable patients  *)
(* table and audit log behind the selected backend (local CSV files or a   *)
(* Google Sheets worksheet pair), and the operations load_data,            *)
(* upsert_patient and discharge_patient.                                   *)
(*                                                                         *)
(* Cells are strings.  A pandas missing value (float NaN, NaT) is the      *)
(* marker NaN / NaT; a pandas Timestamp is represented by its str() form,  *)
(* which is what to_csv and astype(str) write.                             *)
(***************************************************************************)
EXTENDS Integers, Sequences, FiniteSets, TLC

VARIABLES backend, p_df, patients, audit, now, nuid, calls, last, pc, cur, lastWriter

vars == <<backend, p_df, patients, audit, now, nuid, calls, last, pc, cur, lastWriter>>

(***************************************************************************)
(* Bounds of the model.                                                    *)
(***************************************************************************)
MaxCalls == 2     \* mutating calls made after start-up

Callers == {"A", "B"}

(***************************************************************************)
(* Columns and defaults (App.py 27-55).                                    *)
(***************************************************************************)
PATIENT_COLUMNS ==
    << "uid", "Patient Name", "Hospital Number", "NHS Number", "Date of Birth",
       "Ward/Bed", "Reason for Admission", "PMH/PSH/DH", "Progress", "Jobs",
       "Priority", "Assigned To", "Status", "Last Updated" >>

AUDIT_COLUMNS ==
    << "timestamp", "user_role", "user_initials", "action", "uid",
       "patient_name", "details" >>

DEFAULT_PRIORITY == "Medium"
DEFAULT_STATUS == "Active"

Range(s) == {s[i] : i \in DOMAIN s}
PCols == Range(PATIENT_COLUMNS)
ACols == Range(AUDIT_COLUMNS)

(***************************************************************************)
(* Missing values and the text conversions of the two media.               *)
(***************************************************************************)
NaN == "<float nan>"
NaT == "<NaT>"

\* The strings pandas.read_csv turns into NaN by default (keep_default_na).
NA_VALUES ==
    { "", "#N/A", "#N/A N/A", "#NA", "-1.#IND", "-1.#QNAN", "-NaN", "-nan",
      "1.#IND", "1.#QNAN", "<NA>", "N/A", "NA", "NULL", "NaN", "None", "n/a",
      "nan", "null" }

\* datetime.now().isoformat(timespec="seconds") at clock value t.
_now_iso(t) == "2025-01-01T00:00:0" \o ToString(t)

\* str() of the pandas Timestamp of that same instant.
TimestampStr(t) == "2025-01-01 00:00:0" \o ToString(t)

\* The clock starts at 0 or 1 and gains at most a second per call.
Instants == 0 .. (MaxCalls + 2)

\* pd.to_datetime(cell, errors="coerce"): both spellings of an instant parse
\* to its Timestamp, anything else (NaN included) is coerced to NaT.
to_datetime(v) ==
    IF \E t \in Instants : v = _now_iso(t) \/ v = TimestampStr(t)
    THEN TimestampStr(CHOOSE t \in Instants : v = _now_iso(t) \/ v = TimestampStr(t))
    ELSE NaT

\* pd.read_csv on one cell of a text column: default NA strings become NaN.
read_csv_cell(s) == IF s \in NA_VALUES THEN NaN ELSE s

\* DataFrame.to_csv on one cell: missing values are written as na_rep = "".
to_csv_cell(v) == IF v \in {NaN, NaT} THEN "" ELSE v

\* df[col].astype(str) on one cell (the fillna("") after it finds no NaN left).
astype_str_cell(v) == IF v = NaN THEN "nan" ELSE IF v = NaT THEN "NaT" ELSE v

\* pd.read_csv / DataFrame.to_csv / astype(str) on a whole table.
read_csv(rows) ==
    [i \in DOMAIN rows |-> [c \in DOMAIN rows[i] |-> read_csv_cell(rows[i][c])]]

to_csv(df) ==
    [i \in DOMAIN df |-> [c \in DOMAIN df[i] |-> to_csv_cell(df[i][c])]]

astype_str(df) ==
    [i \in DOMAIN df |-> [c \in DOMAIN df[i] |-> astype_str_cell(df[i][c])]]

(***************************************************************************)
(* Backend adapter (App.py 161-210).  A table is the sequence of its data  *)
(* rows below the header; a missing or header-only file is <<>>.           *)
(***************************************************************************)

\* _load_csv: every file the program writes carries the full header, so the
\* column completion adds nothing and read_csv decides the cells; when
\* read_csv raises, the exception is dropped and an empty frame returned.
_load_csv(rows, readFails) == IF readFails THEN << >> ELSE read_csv(rows)

\* Worksheet.get_all_records: one dict per row below the header; text that is
\* not a number comes back as written.
get_all_records(rows) == rows

\* load_data, the patient half: the frame, with the "Last Updated" column
\* parsed to timestamps when the frame has rows.
load_data(b, rows, readFails) ==
    LET df == IF b = "sheets" THEN get_all_records(rows) ELSE _load_csv(rows, readFails)
    IN  [i \in DOMAIN df |->
            [df[i] EXCEPT !["Last Updated"] = to_datetime(df[i]["Last Updated"])]]

\* ws.resize(rows=1): only the header row is kept.
ws_resize(grid) == << >>

\* ws.update("A2", columns): the frame's cells are written from row 2 down;
\* rows of the grid below the written block are not touched.
ws_update(grid, df) ==
    astype_str(df) \o SubSeq(grid, Len(df) + 1, Len(grid))

\* _write_patients run to completion.
_write_patients(b, grid, df) ==
    IF b = "sheets"
    THEN IF df # << >> THEN ws_update(ws_resize(grid), df) ELSE ws_resize(grid)
    ELSE to_csv(df)

\* [row.get(c, "") for c in AUDIT_COLUMNS]
AuditCells(row) == [c \in ACols |-> IF c \in DOMAIN row THEN row[c] ELSE ""]

\* _append_audit run to completion.
_append_audit(b, log, row, readFails) ==
    IF b = "sheets"
    THEN Append(log, AuditCells(row))
    ELSE to_csv(Append(_load_csv(log, readFails), AuditCells(row)))

(***************************************************************************)
(* Record store helpers (App.py 241-298).                                  *)
(***************************************************************************)

\* _new_uid: the n-th identifier handed out.  uuid4 values are taken never
\* to repeat nor to equal an identifier a caller made up.
_new_uid(n) == "uid-" \o ToString(n)

\* dict.get(k, d)
Get(rec, k, d) == IF k \in DOMAIN rec THEN rec[k] ELSE d

\* upsert_patient 251-257: the copy of the record with its uid resolved, Last
\* Updated overwritten and every missing column set to "".
ResolveRecord(record, fresh, t) ==
    [c \in PCols |->
        IF c = "uid"
        THEN (IF Get(record, "uid", "") = "" THEN fresh ELSE record["uid"])
        ELSE IF c = "Last Updated" THEN _now_iso(t)
        ELSE Get(record, c, "")]

UidValues(df) == {df[i]["uid"] : i \in DOMAIN df}

\* p_df.index[p_df["uid"] == uid][0]
FirstIndex(df, uid) ==
    CHOOSE i \in DOMAIN df :
        /\ df[i]["uid"] = uid
        /\ \A j \in DOMAIN df : df[j]["uid"] = uid => i <= j

\* upsert_patient 259: not p_df.empty and rec["uid"] in p_df["uid"].values
IsUpdate(df, rec) == df # << >> /\ rec["uid"] \in UidValues(df)

\* A variant of UpsertFrame that assigns through the boolean mask, so every
\* row of the frame takes the record's values.
UpsertFrame_ReplacesAll(df, rec) ==
    IF IsUpdate(df, rec)
    THEN [i \in DOMAIN df |-> rec]
    ELSE Append(df, rec)

\* upsert_patient 259-266: the frame after the in-memory upsert.
UpsertFrame(df, rec) ==
    IF IsUpdate(df, rec)
    THEN [df EXCEPT ![FirstIndex(df, rec["uid"])] = rec]
    ELSE Append(df, rec)

UpsertAction(df, rec) == IF IsUpdate(df, rec) THEN "update" ELSE "create"

\* upsert_patient 269-277: the audit row of an upsert.
UpsertAuditRow(rec, action, role, initials, t) ==
    [ timestamp |-> _now_iso(t), user_role |-> role, user_initials |-> initials,
      action |-> action, uid |-> rec["uid"],
      patient_name |-> Get(rec, "Patient Name", ""),
      details |-> action \o " by " \o initials ]

\* discharge_patient 283: p_df.empty or uid not in p_df["uid"].values
DischargeNotFound(df, uid) == df = << >> \/ uid \notin UidValues(df)

\* A variant of DischargeFrame that marks every row of the frame.
DischargeFrame_AllRows(df, uid, t) ==
    [i \in DOMAIN df |->
        [df[i] EXCEPT !["Status"] = "Discharged", !["Last Updated"] = _now_iso(t)]]

\* A variant of DischargeFrame that flips the Status of the row.
DischargeFrame_Toggles(df, uid, t) ==
    [df EXCEPT ![FirstIndex(df, uid)] =
        [@ EXCEPT !["Status"] = IF @ = "Discharged" THEN "Active" ELSE "Discharged",
                  !["Last Updated"] = _now_iso(t)]]

\* discharge_patient 285-287: the frame after the in-memory discharge.
DischargeFrame(df, uid, t) ==
    [df EXCEPT ![FirstIndex(df, uid)] =
        [@ EXCEPT !["Status"] = "Discharged", !["Last Updated"] = _now_iso(t)]]

\* discharge_patient 289-297: the audit row of a discharge.
DischargeAuditRow(df, uid, role, initials, t) ==
    [ timestamp |-> _now_iso(t), user_role |-> role, user_initials |-> initials,
      action |-> "discharge", uid |-> uid,
      patient_name |-> df[FirstIndex(df, uid)]["Patient Name"],
      details |-> "discharged by " \o initials ]

(***************************************************************************)
(* Inputs the environment may supply.                                      *)
(***************************************************************************)

\* (role, initials) as the sidebar yields them (App.py 218, 233).
Editors == { [role |-> "Nurse", initials |-> "NA"] }

\* Record dicts a caller may pass to upsert_patient, before the uid is chosen.
RecAnn ==
    ("Patient Name" :> "Ann") @@ ("Ward/Bed" :> "B1") @@ ("Priority" :> "High")
        @@ ("Status" :> "Active")
RecBob ==
    ("Patient Name" :> "Bob") @@ ("Ward/Bed" :> "N/A")
        @@ ("Priority" :> DEFAULT_PRIORITY) @@ ("Status" :> "Discharged")
RecNoName ==
    ("Patient Name" :> "") @@ ("Priority" :> DEFAULT_PRIORITY)
        @@ ("Status" :> DEFAULT_STATUS)

RecordInputs == {RecAnn, RecBob, RecNoName}

\* An identifier no _new_uid call produced.
ForeignUid == "ext-7"
NaUid == "NA"

\* uid arguments: empty, any identifier handed out so far, or one made by
\* the caller: an ordinary text, or a text read_csv takes for a missing value.
UidInputs == {""} \cup {_new_uid(n) : n \in 1 .. nuid} \cup {ForeignUid, NaUid}

\* Where a call to the medium may raise: not at all, in ws.resize, in the
\* record write proper (to_csv / ws.update), in the audit append, or in the
\* read_csv inside the audit append.  A call that raises leaves its medium
\* as it found it.
Faults == {"none", "resize", "write", "audit", "read"}

Raised == "<raised>"
EmptyDict == [c \in {} |-> ""]

NoCall ==
    [ op |-> "none", caller |-> "", arg |-> EmptyDict, uid |-> "", ret |-> "",
      action |-> "", fault |-> "none" ]

(***************************************************************************)
(* Calls run to completion (one session, App.py's synchronous model).      *)
(***************************************************************************)

\* The durable patients table after _write_patients, given where it raised.
PatientsAfter(b, grid, df, fault) ==
    CASE fault = "resize" -> grid
      [] fault = "write"  -> IF b = "sheets" THEN ws_resize(grid) ELSE grid
      [] OTHER            -> _write_patients(b, grid, df)

\* The durable audit log after the call, given where it raised: the append
\* is reached only when _write_patients returned.
AuditAfter(b, log, row, fault) ==
    IF fault \in {"none", "read"} THEN _append_audit(b, log, row, fault = "read") ELSE log

\* A variant of UpsertReturn that swallows what the media raise.
UpsertReturn_Swallows(rec, fault) == rec["uid"]

\* What upsert_patient hands back: the resolved uid, or the exception.
UpsertReturn(rec, fault) == IF fault \in {"none", "read"} THEN rec["uid"] ELSE Raised

\* What discharge_patient hands back after the not-found test passed.
DischargeReturn(fault) == IF fault \in {"none", "read"} THEN "True" ELSE Raised

\* A variant of NotFoundReturn without the membership test of line 283: the
\* empty index of line 285 raises.
NotFoundReturn_Raises(df, uid) == Raised

\* discharge_patient 283-284: what the early return hands back.
NotFoundReturn(df, uid) == "False"

FaultOk(fault) ==
    /\ fault \in Faults
    /\ fault = "resize" => backend = "sheets"
    /\ fault = "read" => backend = "csv"

\* upsert_patient(record, editor_role, editor_initials).  d is the time that
\* passes between the two _now_iso() readings.
UpsertCall(c, record, ed, fault, d) ==
    LET needNew == Get(record, "uid", "") = ""
        rec     == ResolveRecord(record, _new_uid(nuid + 1), now)
        action  == UpsertAction(p_df[c], rec)
        df      == UpsertFrame(p_df[c], rec)
        row     == UpsertAuditRow(rec, action, ed.role, ed.initials, now + d)
    IN  /\ FaultOk(fault)
        /\ calls < MaxCalls
        /\ calls' = calls + 1
        /\ nuid' = IF needNew THEN nuid + 1 ELSE nuid
        /\ p_df' = [p_df EXCEPT ![c] = df]
        /\ patients' = PatientsAfter(backend, patients, df, fault)
        /\ audit' = AuditAfter(backend, audit, row, fault)
        /\ now' = now + d
        /\ last' = [ op |-> "upsert", caller |-> c, arg |-> record,
                     uid |-> rec["uid"], ret |-> UpsertReturn(rec, fault),
                     action |-> action, fault |-> fault ]
        /\ UNCHANGED <<backend, pc, cur, lastWriter>>

\* discharge_patient(uid, editor_role, editor_initials).
DischargeCall(c, uid, ed, fault, d) ==
    IF DischargeNotFound(p_df[c], uid)
    THEN /\ fault = "none" /\ d = 0
         /\ last' = [ op |-> "discharge", caller |-> c, arg |-> EmptyDict,
                      uid |-> uid, ret |-> NotFoundReturn(p_df[c], uid),
                      action |-> "", fault |-> "none" ]
         /\ UNCHANGED <<backend, p_df, patients, audit, now, nuid, calls, pc, cur,
                        lastWriter>>
    ELSE LET df  == DischargeFrame(p_df[c], uid, now)
             row == DischargeAuditRow(df, uid, ed.role, ed.initials, now + d)
         IN  /\ FaultOk(fault)
             /\ calls < MaxCalls
             /\ calls' = calls + 1
             /\ p_df' = [p_df EXCEPT ![c] = df]
             /\ patients' = PatientsAfter(backend, patients, df, fault)
             /\ audit' = AuditAfter(backend, audit, row, fault)
             /\ now' = now + d
             /\ last' = [ op |-> "discharge", caller |-> c, arg |-> EmptyDict,
                          uid |-> uid, ret |-> DischargeReturn(fault),
                          action |-> "discharge", fault |-> fault ]
             /\ UNCHANGED <<backend, nuid, pc, cur, lastWriter>>

\* A call of upsert_patient with any record and uid argument, on media that
\* answer every call.
upsert_patient(c) ==
    \E r \in RecordInputs, u \in UidInputs, ed \in Editors, d \in {0, 1} :
        UpsertCall(c, r @@ ("uid" :> u), ed, "none", d)

\* A call of discharge_patient with any uid argument, on such media.
discharge_patient(c) ==
    \E u \in UidInputs, ed \in Editors, d \in {0, 1} :
        DischargeCall(c, u, ed, "none", d)

\* The same calls on media whose calls may raise (both clock readings of a
\* call falling in one second).
upsert_patient_fallible(c) ==
    \E r \in {RecAnn, RecBob}, u \in UidInputs, ed \in Editors, f \in Faults :
        UpsertCall(c, r @@ ("uid" :> u), ed, f, 0)

discharge_patient_fallible(c) ==
    \E u \in UidInputs, ed \in Editors, f \in Faults :
        DischargeCall(c, u, ed, f, 0)

\* The module-level p_df, a_df = load_data() of a script run (App.py 235).
LoadData(c) ==
    /\ p_df' = [p_df EXCEPT ![c] = load_data(backend, patients, FALSE)]
    /\ last' = [NoCall EXCEPT !.op = "load", !.caller = c]
    /\ UNCHANGED <<backend, patients, audit, now, nuid, calls, pc, cur, lastWriter>>

\* The call a session is in the middle of: what it was asked, the table it
\* loaded (base), the audit row it is about to append and the audit frame
\* its _append_audit has read.
NoStep ==
    [ op |-> "none", uid |-> "", action |-> "", ret |-> "", base |-> << >>,
      row |-> EmptyDict, adf |-> << >> ]

(***************************************************************************)
(* Start-up.  The media are empty, or hold what an earlier run left after  *)
(* one upsert_patient(RecAnn) on empty media; the script then loads them.  *)
(***************************************************************************)
SeedRecord == ResolveRecord(RecAnn, _new_uid(1), 0)
SeedEditor == CHOOSE ed \in Editors : TRUE
SeedPatients(b) == _write_patients(b, << >>, UpsertFrame(<< >>, SeedRecord))
SeedAudit(b) ==
    _append_audit(b, << >>,
        UpsertAuditRow(SeedRecord, "create", SeedEditor.role, SeedEditor.initials, 0),
        FALSE)

Init ==
    /\ backend \in {"csv", "sheets"}
    /\ \E seeded \in BOOLEAN :
          /\ patients = IF seeded THEN SeedPatients(backend) ELSE << >>
          /\ audit = IF seeded THEN SeedAudit(backend) ELSE << >>
          /\ nuid = IF seeded THEN 1 ELSE 0
          /\ now = IF seeded THEN 1 ELSE 0
    /\ p_df = [c \in Callers |-> load_data(backend, patients, FALSE)]
    /\ calls = 0
    /\ last = NoCall
    /\ pc = [c \in Callers |-> "idle"]
    /\ cur = [c \in Callers |-> NoStep]
    /\ lastWriter = ""

(***************************************************************************)
(* One session whose calls run to completion.                              *)
(***************************************************************************)
Next ==
    \/ LoadData("A")
    \/ upsert_patient("A")
    \/ discharge_patient("A")

Spec == Init /\ [][Next]_vars

\* The same session on media whose calls may raise.
NextFault ==
    \/ LoadData("A")
    \/ upsert_patient_fallible("A")
    \/ discharge_patient_fallible("A")

SpecFault == Init /\ [][NextFault]_vars

(***************************************************************************)
(* Two sessions, each one script run: load_data, then one upsert_patient   *)
(* or discharge_patient, their calls to the media interleaved.  A step is  *)
(* one call to a medium, or the in-memory part of a call.                  *)
(***************************************************************************)
ConcRecordInputs == {RecAnn, RecBob}

\* load_data at the top of the script run.
c_load(c) ==
    /\ pc[c] = "idle"
    /\ p_df' = [p_df EXCEPT ![c] = load_data(backend, patients, FALSE)]
    /\ cur' = [cur EXCEPT ![c] = [NoStep EXCEPT !.base = patients]]
    /\ pc' = [pc EXCEPT ![c] = "loaded"]
    /\ UNCHANGED <<backend, patients, audit, now, nuid, calls, last, lastWriter>>

\* upsert_patient 250-266: the in-memory upsert.
c_upsert(c) ==
    /\ pc[c] = "loaded"
    /\ \E r \in ConcRecordInputs, u \in {""} \cup UidValues(p_df[c]), ed \in Editors :
          LET record == r @@ ("uid" :> u)
              rec    == ResolveRecord(record, _new_uid(nuid + 1), now)
              action == UpsertAction(p_df[c], rec)
          IN  /\ nuid' = IF u = "" THEN nuid + 1 ELSE nuid
              /\ p_df' = [p_df EXCEPT ![c] = UpsertFrame(p_df[c], rec)]
              /\ cur' = [cur EXCEPT ![c] =
                            [@ EXCEPT !.op = "upsert", !.uid = rec["uid"],
                                      !.action = action,
                                      !.row = UpsertAuditRow(rec, action, ed.role,
                                                             ed.initials, now)]]
    /\ pc' = [pc EXCEPT ![c] = "mutated"]
    /\ UNCHANGED <<backend, patients, audit, now, calls, last, lastWriter>>

\* discharge_patient 282-287: the not-found return, or the in-memory change.
c_discharge(c) ==
    /\ pc[c] = "loaded"
    /\ \E u \in UidValues(p_df[c]) \cup {ForeignUid}, ed \in Editors :
          IF DischargeNotFound(p_df[c], u)
          THEN /\ cur' = [cur EXCEPT ![c] =
                             [@ EXCEPT !.op = "discharge", !.uid = u,
                                       !.ret = NotFoundReturn(p_df[c], u)]]
               /\ pc' = [pc EXCEPT ![c] = "done"]
               /\ UNCHANGED p_df
          ELSE LET df == DischargeFrame(p_df[c], u, now)
               IN  /\ p_df' = [p_df EXCEPT ![c] = df]
                   /\ cur' = [cur EXCEPT ![c] =
                                 [@ EXCEPT !.op = "discharge", !.uid = u,
                                           !.action = "discharge",
                                           !.row = DischargeAuditRow(df, u, ed.role,
                                                                     ed.initials, now)]]
                   /\ pc' = [pc EXCEPT ![c] = "mutated"]
    /\ UNCHANGED <<backend, patients, audit, now, nuid, calls, last, lastWriter>>

\* _write_patients on the CSV backend: df.to_csv.
c_to_csv(c) ==
    /\ pc[c] = "mutated"
    /\ backend = "csv"
    /\ patients' = to_csv(p_df[c])
    /\ lastWriter' = c
    /\ pc' = [pc EXCEPT ![c] = "written"]
    /\ UNCHANGED <<backend, p_df, audit, now, nuid, calls, last, cur>>

\* _write_patients on the Sheets backend, first call: ws.resize(rows=1).
c_ws_resize(c) ==
    /\ pc[c] = "mutated"
    /\ backend = "sheets"
    /\ patients' = ws_resize(patients)
    /\ pc' = [pc EXCEPT ![c] = "resized"]
    /\ UNCHANGED <<backend, p_df, audit, now, nuid, calls, last, cur, lastWriter>>

\* _write_patients on the Sheets backend, second call: ws.update("A2", ...).
c_ws_update(c) ==
    /\ pc[c] = "resized"
    /\ patients' = IF p_df[c] # << >> THEN ws_update(patients, p_df[c]) ELSE patients
    /\ lastWriter' = c
    /\ pc' = [pc EXCEPT ![c] = "written"]
    /\ UNCHANGED <<backend, p_df, audit, now, nuid, calls, last, cur>>

\* _append_audit on the Sheets backend: one append_row call.
c_append_row(c) ==
    /\ pc[c] = "written"
    /\ backend = "sheets"
    /\ audit' = Append(audit, AuditCells(cur[c].row))
    /\ cur' = [cur EXCEPT ![c].ret = IF cur[c].op = "upsert" THEN cur[c].uid ELSE "True"]
    /\ pc' = [pc EXCEPT ![c] = "done"]
    /\ UNCHANGED <<backend, p_df, patients, now, nuid, calls, last, lastWriter>>

\* _append_audit on the CSV backend, first call: _load_csv of the audit file.
c_audit_read(c) ==
    /\ pc[c] = "written"
    /\ backend = "csv"
    /\ cur' = [cur EXCEPT ![c].adf = _load_csv(audit, FALSE)]
    /\ pc' = [pc EXCEPT ![c] = "audit_read"]
    /\ UNCHANGED <<backend, p_df, patients, audit, now, nuid, calls, last, lastWriter>>

\* _append_audit on the CSV backend: the row added to the frame read, and
\* the frame written back with to_csv.
c_audit_write(c) ==
    /\ pc[c] = "audit_read"
    /\ audit' = to_csv(Append(cur[c].adf, AuditCells(cur[c].row)))
    /\ cur' = [cur EXCEPT ![c].ret = IF cur[c].op = "upsert" THEN cur[c].uid ELSE "True"]
    /\ pc' = [pc EXCEPT ![c] = "done"]
    /\ UNCHANGED <<backend, p_df, patients, now, nuid, calls, last, lastWriter>>

NextConc ==
    \E c \in Callers :
        \/ c_load(c)
        \/ c_upsert(c)
        \/ c_discharge(c)
        \/ c_to_csv(c)
        \/ c_ws_resize(c)
        \/ c_ws_update(c)
        \/ c_append_row(c)
        \/ c_audit_read(c)
        \/ c_audit_write(c)

SpecConc == Init /\ [][NextConc]_vars

(***************************************************************************)
(* Properties of the run-to-completion session.                            *)
(***************************************************************************)
Mem == p_df["A"]
MemAfter == p_df'["A"]

\* The step is a mutating call that returned normally.
Succeeded ==
    /\ last'.op \in {"upsert", "discharge"}
    /\ last'.ret \notin {"False", Raised}

RowsWith(df, uid) == {i \in DOMAIN df : df[i]["uid"] = uid}
DataCols == PCols \ {"uid", "Last Updated"}

\* Two cells agree up to the missing-value normalisation of a load.
SameCell(loaded, given) == loaded = given \/ (loaded = NaN /\ given = "")

\* C1: every upsert_patient / discharge_patient call that returns successfully
\* makes the durable audit log exactly one row longer, the new row last and
\* every earlier row unchanged in its place; no step ever shortens the log.
C1_AuditAppendOnly ==
    [][ /\ Len(audit') >= Len(audit)
        /\ Succeeded =>
              /\ Len(audit') = Len(audit) + 1
              /\ \A i \in 1 .. Len(audit) : audit'[i] = audit[i] ]_vars

\* The length half of C1 alone, which the code does keep.
C1_LengthOnly ==
    [][ /\ Len(audit') >= Len(audit)
        /\ Succeeded => Len(audit') = Len(audit) + 1 ]_vars

UniqueUid(df) == \A i, j \in DOMAIN df : df[i]["uid"] = df[j]["uid"] => i = j

\* C2: whatever uid arguments the calls were given, the store never holds
\* two records with the same uid, neither in the frame nor as load_data
\* reads the durable records.
C2_UniqueUid ==
    /\ UniqueUid(Mem)
    /\ UniqueUid(load_data(backend, patients, FALSE))

\* C2 for the records whose uid read_csv reads back as it was written.
C2_UniqueTextUid ==
    \A i, j \in DOMAIN Mem :
        (Mem[i]["uid"] = Mem[j]["uid"] /\ Mem[i]["uid"] # NaN) => i = j

\* C3: upsert_patient with an empty uid and a non-empty name returns a uid no
\* record had, a load_data afterwards holds exactly one record with that uid
\* whose fields other than Last Updated are the input's, the record count
\* grows by one and the audit event written is a create.
C3_CreateRoundTrip ==
    [][ ( /\ last'.op = "upsert"
          /\ last'.ret # Raised
          /\ Get(last'.arg, "uid", "") = ""
          /\ Get(last'.arg, "Patient Name", "") # "" )
        => LET loaded == load_data(backend', patients', FALSE)
               hits   == RowsWith(loaded, last'.ret)
           IN  /\ last'.ret \notin UidValues(Mem)
               /\ last'.ret \notin UidValues(load_data(backend, patients, FALSE))
               /\ Cardinality(hits) = 1
               /\ \A i \in hits : \A c \in DataCols :
                      SameCell(loaded[i][c], Get(last'.arg, c, ""))
               /\ Len(MemAfter) = Len(Mem) + 1
               /\ Len(load_data(backend', patients', FALSE)) = Len(Mem) + 1
               /\ audit'[Len(audit')]["action"] = "create" ]_vars

\* C3 without the field comparison: what the code does keep of it.
C3_CreateOnly ==
    [][ ( /\ last'.op = "upsert"
          /\ last'.ret # Raised
          /\ Get(last'.arg, "uid", "") = ""
          /\ Get(last'.arg, "Patient Name", "") # "" )
        => /\ last'.ret \notin UidValues(Mem)
           /\ Cardinality(RowsWith(load_data(backend', patients', FALSE), last'.ret)) = 1
           /\ Len(MemAfter) = Len(Mem) + 1
           /\ audit'[Len(audit')]["action"] = "create" ]_vars

\* C4: upsert_patient with a uid the store holds leaves exactly one record
\* for that uid, carrying the new field values, keeps the record count and
\* every other record, and the audit event written is an update.
C4_UpdateInPlace ==
    [][ ( /\ last'.op = "upsert"
          /\ last'.uid \in UidValues(Mem) )
        => LET hits == RowsWith(MemAfter, last'.uid)
           IN  /\ Cardinality(hits) = 1
               /\ \A i \in hits :
                      /\ \A c \in DataCols : MemAfter[i][c] = Get(last'.arg, c, "")
                      /\ MemAfter[i]["Last Updated"] = _now_iso(now)
               /\ Len(MemAfter) = Len(Mem)
               /\ \A i \in DOMAIN Mem :
                      Mem[i]["uid"] # last'.uid => MemAfter[i] = Mem[i]
               /\ Len(patients') = Len(Mem)
               /\ Cardinality(RowsWith(patients', last'.uid)) = 1
               /\ last'.action = "update"
               /\ audit'[Len(audit')]["action"] = "update"
               /\ audit'[Len(audit')]["uid"] = last'.uid ]_vars

C4_Witness ==
    /\ last.op = "upsert"
    /\ last.action = "update"
    /\ last.uid = _new_uid(1)
    /\ Len(Mem) = 2
    /\ Mem[1]["Patient Name"] = "Bob"
    /\ Mem[2]["uid"] # last.uid

\* C5: discharge_patient on the uid of an Active record sets that record's
\* Status to Discharged and its Last Updated to the current time, leaves its
\* other fields and every other record as they were, keeps the record count,
\* and appends exactly one audit event, a discharge of that uid.
C5_DischargeFrame ==
    [][ ( /\ last'.op = "discharge"
          /\ last'.ret = "True"
          /\ Mem[FirstIndex(Mem, last'.uid)]["Status"] = "Active" )
        => LET i == FirstIndex(Mem, last'.uid)
           IN  /\ MemAfter[i]["Status"] = "Discharged"
               /\ MemAfter[i]["Last Updated"] = _now_iso(now)
               /\ \A c \in PCols \ {"Status", "Last Updated"} :
                      MemAfter[i][c] = Mem[i][c]
               /\ Len(MemAfter) = Len(Mem)
               /\ \A j \in DOMAIN Mem : j # i => MemAfter[j] = Mem[j]
               /\ Len(audit') = Len(audit) + 1
               /\ audit'[Len(audit')]["action"] = "discharge"
               /\ audit'[Len(audit')]["uid"] = last'.uid ]_vars

C5_Witness ==
    /\ last.op = "discharge"
    /\ last.ret = "True"
    /\ last.uid = _new_uid(1)
    /\ Len(Mem) = 2
    /\ Mem[1]["Status"] = "Discharged"
    /\ Mem[1]["Patient Name"] = "Ann"
    /\ Mem[2]["Status"] = "Active"

\* C6: discharge_patient on a uid the store does not hold (the empty store
\* included) returns False and changes neither the frame, nor the durable
\* records, nor the audit log.
C6_DischargeUnknown ==
    [][ ( /\ last'.op = "discharge"
          /\ DischargeNotFound(Mem, last'.uid) )
        => /\ last'.ret = "False"
           /\ p_df' = p_df
           /\ patients' = patients
           /\ audit' = audit ]_vars

C6_Witness ==
    /\ last.op = "discharge"
    /\ last.ret = "False"
    /\ last.uid = ForeignUid
    /\ Mem # << >>

\* The record in row i of the frame (rows are never moved or removed) was
\* Discharged and is Active after the step.
Reactivated(i) ==
    /\ i \in DOMAIN MemAfter
    /\ Mem[i]["Status"] = "Discharged"
    /\ MemAfter[i]["Status"] = "Active"

\* C7 as claimed: once a record is Discharged no call makes it Active again.
C7_NoUndischarge ==
    [][ \A i \in DOMAIN Mem : ~Reactivated(i) ]_vars

\* C7 as the code has it: discharge_patient never makes a Discharged record
\* Active; a record goes from Discharged to Active exactly by an
\* upsert_patient call with its uid whose record says Status = Active.
C7_ReactivatedOnlyByUpsert ==
    [][ \A i \in DOMAIN Mem :
            Reactivated(i) =>
                /\ last'.op = "upsert"
                /\ last'.uid = Mem[i]["uid"]
                /\ Get(last'.arg, "Status", "") = "Active" ]_vars

C7_Witness ==
    /\ last.op = "upsert"
    /\ last.action = "update"
    /\ Get(last.arg, "Status", "") = "Active"
    /\ Len(audit) = 3
    /\ audit[2]["action"] = "discharge"
    /\ audit[2]["uid"] = last.uid
    /\ \E i \in DOMAIN Mem : Mem[i]["uid"] = last.uid /\ Mem[i]["Status"] = "Active"

\* C8: upsert_patient with an empty name fails, adding or changing no record
\* and appending no audit event, so that every record of the store has a
\* non-empty name.
C8_NameRequired ==
    [][ /\ ( /\ last'.op = "upsert"
             /\ Get(last'.arg, "Patient Name", "") = "" )
           => /\ last'.ret = Raised
              /\ p_df' = p_df
              /\ patients' = patients
              /\ audit' = audit
        /\ \A i \in DOMAIN MemAfter : MemAfter[i]["Patient Name"] # "" ]_vars

\* C9: when the record write succeeded and the audit append then raises, the
\* call hands back no success value, the records are durable and the audit
\* log is as it was; and the audit log changes only in a call whose record
\* write was done first.
C9_AuditFailureSurfaces ==
    [][ /\ ( /\ last'.op \in {"upsert", "discharge"}
             /\ last'.fault = "audit" )
           => /\ last'.ret = Raised
              /\ patients' = _write_patients(backend, patients, MemAfter)
              /\ audit' = audit
        /\ audit' # audit => patients' = _write_patients(backend, patients, MemAfter) ]_vars

C9_Witness ==
    /\ last.op \in {"upsert", "discharge"}
    /\ last.fault = "audit"
    /\ last.ret = Raised
    /\ patients = _write_patients(backend, patients, Mem)
    /\ Len(Mem) = 2

(***************************************************************************)
(* Properties of the two interleaved sessions.                             *)
(***************************************************************************)
Other(c) == CHOOSE o \in Callers : o # c

\* Both sessions loaded the same table, each applied one successful
\* mutation to its own frame, and both calls have returned.
BothPersisted ==
    /\ \A c \in Callers :
          /\ pc[c] = "done"
          /\ cur[c].op \in {"upsert", "discharge"}
          /\ cur[c].ret \notin {"False", Raised}
    /\ cur["A"].base = cur["B"].base

\* C10: then the durable records are exactly the frame of the session whose
\* _write_patients ran last: the other session's change is not in them.
C10_LastWriterWins ==
    BothPersisted =>
        /\ lastWriter \in Callers
        /\ patients = _write_patients(backend, << >>, p_df[lastWriter])
        /\ ( /\ cur[Other(lastWriter)].action = "create"
             /\ cur[Other(lastWriter)].uid # cur[lastWriter].uid )
           => cur[Other(lastWriter)].uid \notin UidValues(patients)

\* C10 on the CSV backend alone, where _write_patients is one call.
C10_LastWriterWinsCsv == backend = "csv" => C10_LastWriterWins

\* An audit row as it stands after a read_csv / to_csv round, so that two
\* rows are compared as events and not by the spelling of a missing value.
AuditEvent(row) == [c \in DOMAIN row |-> to_csv_cell(read_csv_cell(row[c]))]

\* The step is the last step of session c's _append_audit.
AppendReturns(c) == pc[c] \in {"written", "audit_read"} /\ pc'[c] = "done"

\* C11: with the two sessions' _append_audit steps interleaved in any order,
\* on either backend, every _append_audit that returns has put its event at
\* the end of the durable audit log and kept every event written before it,
\* the other session's included: the log is one event longer.
C11_AuditRaceFree ==
    [][ \A c \in Callers :
            AppendReturns(c) =>
                /\ Len(audit') = Len(audit) + 1
                /\ \A i \in 1 .. Len(audit) :
                       AuditEvent(audit'[i]) = AuditEvent(audit[i])
                /\ AuditEvent(audit'[Len(audit')]) = AuditEvent(AuditCells(cur[c].row)) ]_vars

\* C11 on the Sheets backend alone, where _append_audit is one append_row.
C11_AuditRaceFreeSheets ==
    [][ backend = "sheets" =>
            \A c \in Callers :
                AppendReturns(c) =>
                    /\ Len(audit') = Len(audit) + 1
                    /\ \A i \in 1 .. Len(audit) : audit'[i] = audit[i] ]_vars

\* C11 on the CSV backend when no other session writes the audit file
\* between a session's read of it and its write.
C11_AuditSerialCsv ==
    [][ \A c \in Callers :
            ( /\ AppendReturns(c)
              /\ backend = "csv"
              /\ cur[c].adf = _load_csv(audit, FALSE) )
            => /\ Len(audit') = Len(audit) + 1
               /\ \A i \in 1 .. Len(audit) :
                      AuditEvent(audit'[i]) = AuditEvent(audit[i]) ]_vars

====
